---- MODULE Spec2Model ----
(***************************************************************************)
(* Fault localisation over the process tree of an AiiDA workchain, as      *)
(* implemented by aiida_analyser: the ProcessTree snapshot (base.py), the  *)
(* generic diagnosis BaseWorkChainAnalyser.get_state and the get_state of  *)
(* the specialised analysers.                                              *)
(*                                                                         *)
(* Representation.                                                         *)
(*  - The record store is `graph`, a function from the pk of a process     *)
(*    node to its record.  `called` lists the children of a node in        *)
(*    ascending pk.                                                        *)
(*  - A Python Optional is None (the empty tuple) or a tuple: an exit code *)
(*    is None or the named tuple <<status, message>>; a label is None or   *)
(*    <<label>>.                                                           *)
(*  - A path 'a/b/c' is the sequence <<"a","b","c">> of its segments, the  *)
(*    empty string is <<>>; joining with '/' is appending a segment.       *)
(*  - The outcome of a call is a record: kind "return" with the triple     *)
(*    (path, code, message), or kind "raise" with the exception class.     *)
(*  - A diagnosis code is a Python int or str.  An int is held in the      *)
(*    field `code` with `label` empty; a str is held in the field `label`  *)
(*    and `code` is then Symbolic, which is no exit status.                *)
(*  - A captured text is the sequence of its lines; a substring test is    *)
(*    the occurrence of the line.                                          *)
(***************************************************************************)
EXTENDS Integers, Sequences, FiniteSets, TLC

VARIABLES graph, analyser, result, captured, faults, store, calls, report,
          built, merged, group, run

vars == <<graph, analyser, result, captured, faults, store, calls, report,
          built, merged, group, run>>

(* what get_state does not touch *)
cleanVars == <<faults, store, calls, report>>

(* the snapshot under construction, the dictionaries being merged, the     *)
(* group being aggregated and the get_state call in progress               *)
otherVars == <<built, merged, group, run>>

None == <<>>

CalcJobNode == "process.calculation.calcjob.CalcJobNode."

WorkChainNode == "process.workflow.workchain.WorkChainNode."

ROOT == <<"ROOT">>

----------------------------------------------------------------------------
(* The execution record, as the analysers read it.                         *)

Record(parent, node_type, call_link_label, process_label, ctime, ok, exit_code) ==
    [parent          |-> parent,
     node_type       |-> node_type,
     call_link_label |-> call_link_label,
     process_label   |-> process_label,
     ctime           |-> ctime,
     is_finished_ok  |-> ok,
     exit_code       |-> exit_code]

RECURSIVE AscendingSeq(_)
AscendingSeq(S) ==
    IF S = {} THEN <<>>
    ELSE LET m == CHOOSE x \in S : \A y \in S : x <= y
         IN  <<m>> \o AscendingSeq(S \ {m})

called(g, r) ==
    IF g[r].node_type = WorkChainNode
    THEN AscendingSeq({i \in DOMAIN g : g[i].parent = r})
    ELSE <<>>

----------------------------------------------------------------------------
(* ProcessTree.__init__                                                    *)

InsertByCtime(g, s, x) ==
    LET k == Cardinality({i \in 1..Len(s) : g[s[i]].ctime <= g[x].ctime})
    IN  SubSeq(s, 1, k) \o <<x>> \o SubSeq(s, k + 1, Len(s))

RECURSIVE SortByCtime(_, _)
SortByCtime(g, s) ==
    IF s = <<>> THEN <<>>
    ELSE InsertByCtime(g, SortByCtime(g, SubSeq(s, 1, Len(s) - 1)), s[Len(s)])

link_label(g, i) ==
    IF g[i].call_link_label # None THEN g[i].call_link_label[1]
    ELSE IF g[i].process_label # None THEN g[i].process_label[1]
    ELSE "unlabeled_process_" \o ToString(i)

DictSet(d, k, v) ==
    IF \E i \in 1..Len(d) : d[i].key = k
    THEN [i \in 1..Len(d) |-> IF d[i].key = k THEN [key |-> k, value |-> v] ELSE d[i]]
    ELSE Append(d, [key |-> k, value |-> v])

RECURSIVE ProcessTree(_, _, _)
RECURSIVE BuildChildren(_, _, _)
ProcessTree(g, aiida_node, name) ==
    [name     |-> name,
     node     |-> aiida_node,
     children |-> BuildChildren(g, SortByCtime(g, called(g, aiida_node)), <<>>)]

BuildChildren(g, subprocesses, children) ==
    IF subprocesses = <<>> THEN children
    ELSE LET subprocess == Head(subprocesses)
             label      == link_label(g, subprocess)
         IN  BuildChildren(g, Tail(subprocesses),
                           DictSet(children, label, ProcessTree(g, subprocess, label)))

Contains(tree, key) == \E i \in 1..Len(tree.children) : tree.children[i].key = key

GetItem(tree, key) ==
    tree.children[CHOOSE i \in 1..Len(tree.children) : tree.children[i].key = key].value

(* ProcessTree.find_last_node: the node a breadth-first walk visits last   *)
RECURSIVE BreadthFirst(_, _)
BreadthFirst(queue, last_node) ==
    IF queue = <<>> THEN last_node
    ELSE LET current_node == Head(queue)
         IN  BreadthFirst(Tail(queue)
                            \o [k \in 1..Len(current_node.children) |->
                                   current_node.children[k].value],
                          current_node)

(* find_last_node as the descent from the root through the last-inserted  *)
(* child of every node                                                     *)
RECURSIVE find_last_node_LastChild(_)
find_last_node_LastChild(tree) ==
    IF tree.children = <<>> THEN tree
    ELSE find_last_node_LastChild(tree.children[Len(tree.children)].value)

find_last_node(tree) == BreadthFirst(<<tree>>, tree)

----------------------------------------------------------------------------
(* ProcessTree.traverse_and_check                                          *)

RECURSIVE traverse_and_check(_, _, _)
RECURSIVE TraverseChildren(_, _, _, _)
(* traverse_and_check without the test of the node type: any node that   *)
(* did not finish successfully is taken for the errored leaf.              *)
traverse_and_check_AnyType(g, node, current_path) ==
    LET new_path == IF current_path # <<>> THEN Append(current_path, node.name)
                    ELSE <<node.name>>
    IN  IF ~g[node.node].is_finished_ok
        THEN <<new_path, node>>
        ELSE TraverseChildren(g, node.children, 1, new_path)

traverse_and_check(g, node, current_path) ==
    LET new_path == IF current_path # <<>> THEN Append(current_path, node.name)
                    ELSE <<node.name>>
    IN  IF g[node.node].node_type = CalcJobNode /\ ~g[node.node].is_finished_ok
        THEN <<new_path, node>>
        ELSE TraverseChildren(g, node.children, 1, new_path)

TraverseChildren(g, children, i, new_path) ==
    IF i > Len(children) THEN None
    ELSE LET res == traverse_and_check(g, children[i].value, new_path)
         IN  IF res # None THEN res
             ELSE TraverseChildren(g, children, i + 1, new_path)

----------------------------------------------------------------------------
(* Outcomes of a call                                                      *)

Symbolic == -2

Return(path, code, message) ==
    [kind |-> "return", path |-> path, code |-> code, label |-> "",
     message |-> message, exc |-> ""]

ReturnLabel(path, label, message) ==
    [kind |-> "return", path |-> path, code |-> Symbolic, label |-> label,
     message |-> message, exc |-> ""]

Raise(exc) ==
    [kind |-> "raise", path |-> <<>>, code |-> 0, label |-> "",
     message |-> "", exc |-> exc]

Idle ==
    [kind |-> "idle", path |-> <<>>, code |-> 0, label |-> "",
     message |-> "", exc |-> ""]

----------------------------------------------------------------------------
(* BaseWorkChainAnalyser.get_state                                         *)

(* get_state without the test of the root: the locator decides alone.     *)
BaseGetState_LocatorOnly(g, r) ==
    LET res == traverse_and_check(g, ProcessTree(g, r, "ROOT"), <<>>)
    IN  IF res = None
        THEN Return(ROOT, -1, "Unknown status")
        ELSE LET exit_code == g[res[2].node].exit_code
             IN  IF exit_code = None
                 THEN Raise("AttributeError")
                 ELSE Return(res[1], exit_code[1], exit_code[2])

BaseGetState(g, r) ==
    IF g[r].is_finished_ok
    THEN Return(ROOT, 0, "finished OK")
    ELSE LET res == traverse_and_check(g, ProcessTree(g, r, "ROOT"), <<>>)
         IN  IF res = None
             THEN Return(ROOT, -1, "Unknown status")
             ELSE LET exit_code == g[res[2].node].exit_code
                  IN  IF exit_code = None
                      THEN Raise("AttributeError")
                      ELSE Return(res[1], exit_code[1], exit_code[2])

----------------------------------------------------------------------------
(* self._get_state_from_tree(): no class of the analyser hierarchy defines *)
(* this attribute, so evaluating it raises AttributeError.                  *)

GetStateFromTree(g, r) == Raise("AttributeError")

(* get_state that reports the failure of _get_state_from_tree as success  *)
PwBaseGetState_AsSuccess(g, r) ==
    LET res == GetStateFromTree(g, r)
    IN  IF res.kind = "raise" /\ res.exc \in {"AttributeError", "ValueError"}
        THEN Return(ROOT, 0, "finished OK")
        ELSE res

(* PwBaseWorkChainAnalyser.get_state                                       *)
PwBaseGetState(g, r) ==
    LET res == GetStateFromTree(g, r)
    IN  IF res.kind = "raise" /\ res.exc \in {"AttributeError", "ValueError"}
        THEN Return(ROOT, -1, "Unknown status")
        ELSE res

(* PwBandsWorkChainAnalyser, EpwSuperConWorkChainAnalyser and              *)
(* ThermoPwBaseAnalyser.get_state                                          *)
PwBandsGetState(g, r) == GetStateFromTree(g, r)

SuperConGetState(g, r) == GetStateFromTree(g, r)

ThermoPwGetState(g, r) == GetStateFromTree(g, r)

(* EpwBaseWorkChainAnalyser defines no get_state: it inherits the base one *)
EpwBaseGetState(g, r) == BaseGetState(g, r)

----------------------------------------------------------------------------
(* Analysers of the base workchains a Wannier90WorkChain calls, imported   *)
(* by wannier90.py from projwfc_base, pw2wannier90_base and wannier90_base.*)
(* They diagnose their subprocess with the generic state machine.          *)

ProjwfcBaseGetState(g, r) == BaseGetState(g, r)

Pw2Wannier90BaseGetState(g, r) == BaseGetState(g, r)

Wannier90BaseGetState(g, r) == BaseGetState(g, r)

----------------------------------------------------------------------------
(* Wannier90WorkChainAnalyser.get_state                                    *)

Wannier90Subprocesses ==
    << <<"scf", TRUE>>, <<"nscf", TRUE>>, <<"projwfc", FALSE>>,
       <<"wannier90_pp", TRUE>>, <<"pw2wannier90", TRUE>>, <<"wannier90", TRUE>> >>

Wannier90SubState(g, subprocess_name, subprocess_node) ==
    IF subprocess_name \in {"scf", "nscf"} THEN PwBaseGetState(g, subprocess_node)
    ELSE IF subprocess_name = "projwfc" THEN ProjwfcBaseGetState(g, subprocess_node)
    ELSE IF subprocess_name = "pw2wannier90"
         THEN Pw2Wannier90BaseGetState(g, subprocess_node)
    ELSE IF subprocess_name \in {"wannier90_pp", "wannier90"}
         THEN Wannier90BaseGetState(g, subprocess_node)
    ELSE GetStateFromTree(g, subprocess_node)

Prefixed(subprocess_name, sub) ==
    IF sub.kind = "raise" THEN sub
    ELSE Return(IF sub.path = ROOT THEN <<subprocess_name>>
                ELSE <<subprocess_name>> \o sub.path,
                sub.code, sub.message)

RECURSIVE Wannier90Check(_, _, _, _)
Wannier90Check(g, r, process_tree, i) ==
    IF i > Len(Wannier90Subprocesses) THEN GetStateFromTree(g, r)
    ELSE LET subprocess_name == Wannier90Subprocesses[i][1]
             required        == Wannier90Subprocesses[i][2]
         IN  IF Contains(process_tree, subprocess_name)
             THEN LET subprocess_node == GetItem(process_tree, subprocess_name).node
                  IN  IF ~g[subprocess_node].is_finished_ok
                      THEN Prefixed(subprocess_name,
                                    Wannier90SubState(g, subprocess_name, subprocess_node))
                      ELSE Wannier90Check(g, r, process_tree, i + 1)
             ELSE IF required THEN GetStateFromTree(g, r)
             ELSE Wannier90Check(g, r, process_tree, i + 1)

Wannier90GetState(g, r) ==
    IF g[r].is_finished_ok
    THEN Return(ROOT, 0, "finished OK")
    ELSE Wannier90Check(g, r, ProcessTree(g, r, "ROOT"), 1)

----------------------------------------------------------------------------
(* PhBaseWorkChainAnalyser.get_state.  The statements after its try block *)
(* (the refinement of exit status 312 and the stability check) run only    *)
(* when self._get_state_from_tree() returns.                               *)

PhBaseRules ==
    << <<"ERROR_FIND_MODE_SYM", "Error in routine find_mode_sym (1)">>,
       <<"ERROR_SET_IRR_SYM_NEW", "Error in routine set_irr_sym_new (922)">>,
       <<"ERROR_WRONG_REPRESENTATION", "Error in routine set_irr_sym_new (822)">>,
       <<"ERROR_CDIAGHG", "Error in routine cdiaghg (4)">>,
       <<"ERROR_S_MATRIX_NOT_POSITIVE_DEFINITE", "Error in routine cdiaghg (126)">>,
       <<"ERROR_PHQ_SETUP", "Error in routine phq_setup (1)">>,
       <<"ERROR_Q_POINTS", "Error in routine q_points (1)">>,
       <<"ERROR_DAVCIO", "Error in routine davcio (99)">>,
       <<"ERROR_CHECK_ALL_CONVT", "Error in routine check_all_convt (1)">>,
       <<"ERROR_READ_WFC", "Error in routine read_wfc (29)">> >>

(* substring in text *)
In(substring, text) == \E k \in 1..Len(text) : text[k] = substring

(* the loop over the rules: the flag of the first rule whose message is in *)
(* the output, None when the loop ends without a break                     *)
RECURSIVE DetectedError(_, _)
DetectedError(aiida_out, k) ==
    IF k > Len(PhBaseRules) THEN None
    ELSE IF In(PhBaseRules[k][2], aiida_out) THEN <<PhBaseRules[k][1]>>
    ELSE DetectedError(aiida_out, k + 1)

(* PhBaseWorkChainAnalyser.is_stable, as get_state consumes it: the        *)
(* verdict computed from the phonon outputs, or the exception of a missing *)
(* or malformed output                                                     *)
is_stable(g, r) ==
    IF captured.stability = "raise" THEN Raise("AttributeError")
    ELSE [kind |-> "return", is_stable |-> captured.stability = "stable"]

(* the statements of get_state after the try block *)
PhBaseRefine(g, r, res) ==
    LET path    == res.path
        message == res.message
    IN  IF res.label = "" /\ res.code = 312
        THEN LET last_node     == find_last_node(ProcessTree(g, r, "ROOT")).node
                 process_label == IF g[last_node].process_label = None THEN "None"
                                  ELSE g[last_node].process_label[1]
                 aiida_out     == IF captured.aiida_out_exc # "" THEN <<>>
                                  ELSE captured.aiida_out
                 stderr        == IF captured.stderr_exc # "" THEN <<>>
                                  ELSE captured.stderr
                 detected_error == DetectedError(aiida_out, 1)
             IN  IF process_label # "PhCalculation"
                 THEN Return(path, 312,
                             message \o " (Last node is " \o process_label
                                     \o ", not PhCalculation)")
                 ELSE IF captured.aiida_out_exc \notin {"", "AttributeError", "KeyError"}
                 THEN Return(path, 312,
                             message \o " (Error analysis failed: "
                                     \o captured.aiida_out_exc \o ")")
                 ELSE IF captured.stderr_exc \notin {"", "None", "AttributeError", "KeyError"}
                 THEN Return(path, 312,
                             message \o " (Error analysis failed: "
                                     \o captured.stderr_exc \o ")")
                 ELSE IF detected_error # None
                 THEN ReturnLabel(path, detected_error[1],
                                  message \o " (Detected: " \o detected_error[1] \o ")")
                 ELSE IF captured.stderr_exc = "None"
                 THEN Return(path, 312,
                             message \o " (Error analysis failed: TypeError)")
                 ELSE IF In("TIME LIMIT", stderr)
                 THEN ReturnLabel(path, "SCHEDULER_TIME_LIMIT",
                                  message \o " (Scheduler time limit reached)")
                 ELSE IF In("process killed", stderr)
                 THEN ReturnLabel(path, "KILLED_BY_SCHEDULER",
                                  message \o " (Process killed by scheduler)")
                 ELSE Return(path, -1, message \o " (Unable to determine specific error)")
        ELSE IF res.label = "" /\ res.code = 0
        THEN LET hook == is_stable(g, r)
             IN  IF hook.kind = "raise"
                 THEN Return(path, 0,
                             message \o " (Stability check failed: " \o hook.exc \o ")")
                 ELSE IF ~hook.is_stable
                 THEN ReturnLabel(path, "UNSTABLE",
                                  message \o " Phonon is unstable from ph_base.")
                 ELSE Return(path, 0, message)
        ELSE res

PhBaseGetState(g, r) ==
    LET res == GetStateFromTree(g, r)
    IN  IF res.kind = "raise"
        THEN IF res.exc \in {"AttributeError", "ValueError"}
             THEN Return(ROOT, -1, "Unknown status")
             ELSE res
        ELSE PhBaseRefine(g, r, res)

----------------------------------------------------------------------------
(* EpwPrepWorkChainAnalyser.get_state                                      *)

EpwPrepSubprocesses ==
    << <<"w90_bands", "Wannier90WorkChainAnalyser">>,
       <<"ph_base", "PhBaseWorkChainAnalyser">>,
       <<"epw_base", "EpwBaseWorkChainAnalyser">>,
       <<"epw_bands", "EpwBaseWorkChainAnalyser">> >>

EpwPrepSubState(g, subprocess_analyser, node) ==
    IF subprocess_analyser = "Wannier90WorkChainAnalyser" THEN Wannier90GetState(g, node)
    ELSE IF subprocess_analyser = "PhBaseWorkChainAnalyser" THEN PhBaseGetState(g, node)
    ELSE EpwBaseGetState(g, node)

RECURSIVE EpwPrepCheck(_, _, _)
EpwPrepCheck(g, r, i) ==
    IF i > Len(EpwPrepSubprocesses) THEN Raise("ValueError")
    ELSE LET subprocess_name     == EpwPrepSubprocesses[i][1]
             subprocess_analyser == EpwPrepSubprocesses[i][2]
             process_tree        == ProcessTree(g, r, "ROOT")
         IN  IF Contains(process_tree, subprocess_name)
                /\ ~g[GetItem(process_tree, subprocess_name).node].is_finished_ok
             THEN EpwPrepSubState(g, subprocess_analyser,
                                  GetItem(process_tree, subprocess_name).node)
             ELSE EpwPrepCheck(g, r, i + 1)

EpwPrepGetState(g, r) ==
    IF g[r].is_finished_ok
    THEN Return(ROOT, 0, "finished OK")
    ELSE EpwPrepCheck(g, r, 1)

----------------------------------------------------------------------------
(* EpwB2WWorkChainAnalyser.get_state                                       *)

Relabelled(label, sub) ==
    IF sub.kind = "raise" THEN sub ELSE Return(<<label>>, sub.code, sub.message)

EpwB2WGetState(g, r) ==
    LET process_tree == ProcessTree(g, r, "ROOT")
        ok(name)     == g[GetItem(process_tree, name).node].is_finished_ok
        node(name)   == GetItem(process_tree, name).node
    IN  IF g[r].is_finished_ok THEN Return(ROOT, 0, "finished OK")
        ELSE IF ~Contains(process_tree, "w90_bands") THEN Raise("AttributeError")
        ELSE IF ~ok("w90_bands")
             THEN Relabelled("w90_bands", Wannier90GetState(g, node("w90_bands")))
        ELSE IF ~Contains(process_tree, "ph_base") THEN Raise("AttributeError")
        ELSE IF ~ok("ph_base")
             THEN Relabelled("ph_base", PhBaseGetState(g, node("ph_base")))
        ELSE IF Contains(process_tree, "epw") /\ ~ok("epw")
             THEN Relabelled("epw", EpwBaseGetState(g, node("epw")))
        ELSE IF Contains(process_tree, "epw_base") /\ ~ok("epw_base")
             THEN Relabelled("epw_base", EpwBaseGetState(g, node("epw_base")))
        ELSE Raise("ValueError")

----------------------------------------------------------------------------
(* The collaborators of clean_workchain.  `store` holds what they mutate:  *)
(* the calculations whose working directory was cleaned and the nodes      *)
(* deleted; `faults` says how each of them ends.                           *)

RECURSIVE Descendants(_, _)
Descendants(g, r) ==
    LET sub == {i \in DOMAIN g : g[i].parent = r}
    IN  sub \cup UNION {Descendants(g, i) : i \in sub}

(* clean_workdir(node, dry_run): the calculations below the node whose     *)
(* working directory is, or with dry_run would be, cleaned                 *)
clean_workdir(g, node, dry_run, st, fl) ==
    LET cleaned_calcs == {i \in Descendants(g, node) :
                            g[i].node_type = CalcJobNode /\ i \notin st.cleaned}
    IN  IF fl.clean_workdir = "raise"
        THEN [exc |-> "OSError", value |-> <<>>, store |-> st]
        ELSE [exc   |-> "",
              value |-> AscendingSeq(cleaned_calcs),
              store |-> IF dry_run THEN st
                        ELSE [st EXCEPT !.cleaned = @ \cup cleaned_calcs]]

(* delete_nodes(pks, dry_run): the nodes that are, or with dry_run would   *)
(* be, deleted, and what the deletion has to report                        *)
delete_nodes(g, pk, dry_run, st, fl) ==
    LET pks == {pk} \cup Descendants(g, pk)
    IN  IF fl.delete_nodes = "raise"
        THEN [exc |-> "IntegrityError", value |-> <<>>, warnings |-> FALSE, store |-> st]
        ELSE IF fl.delete_nodes = "warn"
        THEN [exc |-> "", value |-> AscendingSeq(pks), warnings |-> TRUE, store |-> st]
        ELSE [exc      |-> "",
              value    |-> AscendingSeq(pks),
              warnings |-> FALSE,
              store    |-> IF dry_run THEN st
                           ELSE [st EXCEPT !.deleted = @ \cup pks]]

----------------------------------------------------------------------------
(* BaseWorkChainAnalyser.clean_workchain.  `state` is what self.get_state() *)
(* of the analyser's class gives.  The outcome holds the report (the       *)
(* returned message and flag, or the exception), the store and the calls   *)
(* issued to the collaborators.                                            *)

CollaboratorCall(fn, dry_run) == [fn |-> fn, dry_run |-> dry_run]

Report(kind, state, cleaned_calcs, deleted_nodes, changed, exc) ==
    [kind    |-> kind,
     message |-> [path    |-> state.path,
                  code    |-> state.code,
                  label   |-> state.label,
                  cleaned |-> cleaned_calcs,
                  deleted |-> deleted_nodes],
     changed |-> changed,
     exc     |-> exc]

NoReport == Report("idle", Idle, <<>>, <<>>, FALSE, "")

RaiseReport(exc) == Report("raise", Idle, <<>>, <<>>, FALSE, exc)

Outcome(rep, st, cs) == [report |-> rep, store |-> st, calls |-> cs]

(* status in exempted_states *)
Exempted(state, exempted_states) ==
    \E e \in exempted_states : e.code = state.code /\ e.label = state.label

(* clean_workchain that passes dry_run=False to delete_nodes *)
BaseCleanWorkchain_AlwaysDelete(g, r, state, exempted_states, dry_run, st, fl) ==
    IF state.kind = "raise" THEN Outcome(RaiseReport(state.exc), st, <<>>)
    ELSE IF Exempted(state, exempted_states)
    THEN Outcome(Report("return", state, <<>>, <<>>, FALSE, ""), st, <<>>)
    ELSE LET cleaned == clean_workdir(g, r, dry_run, st, fl)
             deleted == delete_nodes(g, r, FALSE, cleaned.store, fl)
         IN  IF cleaned.exc # ""
             THEN Outcome(RaiseReport(cleaned.exc), st,
                          <<CollaboratorCall("clean_workdir", dry_run)>>)
             ELSE Outcome(Report("return", state, cleaned.value, deleted.value, TRUE, ""),
                          deleted.store,
                          <<CollaboratorCall("clean_workdir", dry_run),
                            CollaboratorCall("delete_nodes", FALSE)>>)

(* clean_workchain without the test of the exempted states *)
BaseCleanWorkchain_NoExemption(g, r, state, exempted_states, dry_run, st, fl) ==
    IF state.kind = "raise" THEN Outcome(RaiseReport(state.exc), st, <<>>)
    ELSE LET cleaned == clean_workdir(g, r, dry_run, st, fl)
             deleted == delete_nodes(g, r, dry_run, cleaned.store, fl)
         IN  IF cleaned.exc # ""
             THEN Outcome(RaiseReport(cleaned.exc), st,
                          <<CollaboratorCall("clean_workdir", dry_run)>>)
             ELSE Outcome(Report("return", state, cleaned.value, deleted.value, TRUE, ""),
                          deleted.store,
                          <<CollaboratorCall("clean_workdir", dry_run),
                            CollaboratorCall("delete_nodes", dry_run)>>)

BaseCleanWorkchain(g, r, state, exempted_states, dry_run, st, fl) ==
    IF state.kind = "raise" THEN Outcome(RaiseReport(state.exc), st, <<>>)
    ELSE IF Exempted(state, exempted_states)
    THEN Outcome(Report("return", state, <<>>, <<>>, FALSE, ""), st, <<>>)
    ELSE LET cleaned == clean_workdir(g, r, dry_run, st, fl)
             deleted == delete_nodes(g, r, dry_run, cleaned.store, fl)
         IN  IF cleaned.exc # ""
             THEN Outcome(RaiseReport(cleaned.exc), st,
                          <<CollaboratorCall("clean_workdir", dry_run)>>)
             ELSE IF deleted.exc # ""
             THEN Outcome(RaiseReport(deleted.exc), cleaned.store,
                          <<CollaboratorCall("clean_workdir", dry_run),
                            CollaboratorCall("delete_nodes", dry_run)>>)
             ELSE Outcome(Report("return", state, cleaned.value, deleted.value, TRUE, ""),
                          deleted.store,
                          <<CollaboratorCall("clean_workdir", dry_run),
                            CollaboratorCall("delete_nodes", dry_run)>>)

(* super().clean_workchain(dry_run=dry_run): the required positional       *)
(* argument exempted_states is not given, the call raises TypeError        *)
CleanWithoutExemptedStates(st) == Outcome(RaiseReport("TypeError"), st, <<>>)

(* clean_workchain of the PhBase, PwBase, Wannier90, EpwSuperCon and       *)
(* ThermoPwBase analysers                                                  *)
PhBaseCleanWorkchain(g, r, dry_run, st, fl) == CleanWithoutExemptedStates(st)

PwBaseCleanWorkchain(g, r, dry_run, st, fl) == CleanWithoutExemptedStates(st)

Wannier90CleanWorkchain(g, r, dry_run, st, fl) == CleanWithoutExemptedStates(st)

SuperConCleanWorkchain(g, r, dry_run, st, fl) == CleanWithoutExemptedStates(st)

ThermoPwCleanWorkchain(g, r, dry_run, st, fl) == CleanWithoutExemptedStates(st)

(* members of the enumeration EpwBaseWorkChainState *)
EpwBaseExemptedStates ==
    { [code |-> Symbolic, label |-> "EpwBaseWorkChainState.WAITING"],
      [code |-> Symbolic, label |-> "EpwBaseWorkChainState.RUNNING"] }

EpwBaseCleanWorkchain(g, r, dry_run, st, fl) ==
    BaseCleanWorkchain(g, r, EpwBaseGetState(g, r), EpwBaseExemptedStates, dry_run, st, fl)

EpwPrepCleanWorkchain(g, r, exempted_states, dry_run, st, fl) ==
    BaseCleanWorkchain(g, r, EpwPrepGetState(g, r), exempted_states, dry_run, st, fl)

EpwB2WCleanWorkchain(g, r, exempted_states, dry_run, st, fl) ==
    BaseCleanWorkchain(g, r, EpwB2WGetState(g, r), exempted_states, dry_run, st, fl)

----------------------------------------------------------------------------
(* ProcessTree.__init__ as the interpreter runs it: every level of the     *)
(* tree is a nested call of the constructor, and a call nested deeper than *)
(* the recursion limit raises RecursionError, which the handler of         *)
(* AttributeError does not catch.  The outcome is the tree or the          *)
(* exception.                                                              *)

RecursionLimit == 4

Constructed(tree) == [kind |-> "return", tree |-> tree, exc |-> ""]

NotConstructed(exc) == [kind |-> "raise", tree |-> <<>>, exc |-> exc]

RECURSIVE Construct(_, _, _, _)
RECURSIVE ConstructChildren(_, _, _, _)
(* the constructor with RecursionError handled like AttributeError: the   *)
(* node is left without children                                           *)
Construct_CaughtRecursion(g, aiida_node, name, depth) ==
    IF depth > RecursionLimit
    THEN Constructed([name |-> name, node |-> aiida_node, children |-> <<>>])
    ELSE LET children == ConstructChildren(g, SortByCtime(g, called(g, aiida_node)),
                                           <<>>, depth)
         IN  IF children.kind = "raise" THEN children
             ELSE Constructed([name     |-> name,
                               node     |-> aiida_node,
                               children |-> children.tree])

Construct(g, aiida_node, name, depth) ==
    IF depth > RecursionLimit THEN NotConstructed("RecursionError")
    ELSE LET children == ConstructChildren(g, SortByCtime(g, called(g, aiida_node)),
                                           <<>>, depth)
         IN  IF children.kind = "raise" THEN children
             ELSE Constructed([name     |-> name,
                               node     |-> aiida_node,
                               children |-> children.tree])

ConstructChildren(g, subprocesses, children, depth) ==
    IF subprocesses = <<>> THEN Constructed(children)
    ELSE LET subprocess == Head(subprocesses)
             label      == link_label(g, subprocess)
             child_node == Construct(g, subprocess, label, depth + 1)
         IN  IF child_node.kind = "raise" THEN child_node
             ELSE ConstructChildren(g, Tail(subprocesses),
                                    DictSet(children, label, child_node.tree), depth)

----------------------------------------------------------------------------
(* group.py.  A Python value handed to recursive_merge is a record of its  *)
(* type (`kind`) and its content (`val`): a dict is a function from its    *)
(* keys to values, a list or a tuple a sequence, a set a set.  A call that *)
(* raises gives the kind "raise" with the exception class.                 *)

Value(kind, val) == [kind |-> kind, val |-> val]

Dict(f) == Value("dict", f)

List(s) == Value("list", s)

Raised(exc) == Value("raise", exc)

(* value_merged + value_d2: defined for two lists and for two tuples, a    *)
(* TypeError for two sets                                                  *)
Plus(value_merged, value_d2) ==
    IF value_merged.kind = "set" THEN Raised("TypeError")
    ELSE Value(value_merged.kind, value_merged.val \o value_d2.val)

RECURSIVE recursive_merge(_, _)
(* recursive_merge that replaces a list by the incoming list *)
recursive_merge_Overwrite(d1, d2) ==
    LET MergeKey(key) ==
            IF key \notin DOMAIN d2.val THEN d1.val[key]
            ELSE IF key \notin DOMAIN d1.val THEN d2.val[key]
            ELSE LET value_merged == d1.val[key]
                     value_d2     == d2.val[key]
                 IN  IF value_merged.kind = "dict" /\ value_d2.kind = "dict"
                     THEN recursive_merge(value_merged, value_d2)
                     ELSE value_d2
        items == [key \in DOMAIN d1.val \cup DOMAIN d2.val |-> MergeKey(key)]
    IN  IF \E key \in DOMAIN items : items[key].kind = "raise"
        THEN Raised("TypeError")
        ELSE Dict(items)

recursive_merge(d1, d2) ==
    LET MergeKey(key) ==
            IF key \notin DOMAIN d2.val THEN d1.val[key]
            ELSE IF key \notin DOMAIN d1.val THEN d2.val[key]
            ELSE LET value_merged == d1.val[key]
                     value_d2     == d2.val[key]
                 IN  IF value_merged.kind = "dict" /\ value_d2.kind = "dict"
                     THEN recursive_merge(value_merged, value_d2)
                     ELSE IF value_merged.kind = value_d2.kind
                             /\ value_d2.kind \in {"list", "set", "tuple"}
                     THEN Plus(value_merged, value_d2)
                     ELSE value_d2
        items == [key \in DOMAIN d1.val \cup DOMAIN d2.val |-> MergeKey(key)]
    IN  IF \E key \in DOMAIN items : items[key].kind = "raise"
        THEN Raised("TypeError")
        ELSE Dict(items)

(* analyser_class(node).get_state() *)
GetState(analyser_class, g, r) ==
    CASE analyser_class = "BaseWorkChainAnalyser" -> BaseGetState(g, r)
      [] analyser_class = "PwBaseWorkChainAnalyser" -> PwBaseGetState(g, r)
      [] analyser_class = "PhBaseWorkChainAnalyser" -> PhBaseGetState(g, r)
      [] analyser_class = "PwBandsWorkChainAnalyser" -> PwBandsGetState(g, r)
      [] analyser_class = "EpwSuperConWorkChainAnalyser" -> SuperConGetState(g, r)
      [] analyser_class = "ThermoPwBaseAnalyser" -> ThermoPwGetState(g, r)
      [] analyser_class = "EpwBaseWorkChainAnalyser" -> EpwBaseGetState(g, r)
      [] analyser_class = "Wannier90WorkChainAnalyser" -> Wannier90GetState(g, r)
      [] analyser_class = "EpwPrepWorkChainAnalyser" -> EpwPrepGetState(g, r)
      [] analyser_class = "EpwB2WWorkChainAnalyser" -> EpwB2WGetState(g, r)

(* the status of a diagnosis, as the key of a bucket *)
Status(state) == IF state.label # "" THEN state.label ELSE state.code

(* {path: {status: {'message': message, 'nodes': [node.uuid]}}} *)
Entry(state, uuid) ==
    Dict(state.path :>
           Dict(Status(state) :>
                  Dict([message |-> Value("str", state.message),
                        nodes   |-> List(<<uuid>>)])))

(* get_group_status.  `nodes` lists the nodes of the group, each the root  *)
(* of its own record graph; the uuid of a node is its place in the list.   *)
RECURSIVE GroupLoop(_, _, _, _)
GroupLoop(nodes, analyser_class, k, results) ==
    IF k > Len(nodes) THEN results
    ELSE LET state == GetState(analyser_class, nodes[k], 1)
         IN  IF state.kind = "raise" THEN Raised(state.exc)
             ELSE LET merged_results == recursive_merge(results, Entry(state, k))
                  IN  IF merged_results.kind = "raise" THEN merged_results
                      ELSE GroupLoop(nodes, analyser_class, k + 1, merged_results)

get_group_status(nodes, analyser_class) ==
    GroupLoop(nodes, analyser_class, 1, Dict(<<>>))

----------------------------------------------------------------------------
(* The record graphs the analysers are run on.                             *)

MaxRecords == 3

MaxCtime == 2

Root == 1

Finished == <<TRUE, <<0, "">>>>

CalcJobOutcomes ==
    { Finished,
      <<FALSE, None>>,
      <<FALSE, <<500, "SCF did not converge">>>>,
      <<FALSE, <<312, "unrecoverable error">>>> }

WorkChainOutcomes == { Finished, <<FALSE, <<401, "sub process failed">>>> }

Outcomes(node_type) ==
    IF node_type = CalcJobNode THEN CalcJobOutcomes ELSE WorkChainOutcomes

ProcessLabel(node_type) ==
    IF node_type = CalcJobNode THEN <<"PwCalculation">> ELSE <<"PwBaseWorkChain">>

RootRecords ==
    { Record(0, WorkChainNode, None, ProcessLabel(WorkChainNode), 0, o[1], o[2]) :
        o \in WorkChainOutcomes }

ChildRecords(g) ==
    { Record(x[1], x[2], x[3], ProcessLabel(x[2]), x[4], x[5][1], x[5][2]) :
        x \in { y \in {i \in DOMAIN g : g[i].node_type = WorkChainNode}
                      \X {CalcJobNode, WorkChainNode}
                      \X {<<"scf">>, <<"nscf">>, None}
                      \X (1..MaxCtime)
                      \X (CalcJobOutcomes \cup WorkChainOutcomes) :
                y[5] \in Outcomes(y[2]) } }

RootGraphs == { [i \in {Root} |-> rec] : rec \in RootRecords }

NextPk(g) == (CHOOSE i \in DOMAIN g : \A j \in DOMAIN g : j <= i) + 1

(* A workchain with the subprocesses of a Wannier90WorkChain: subprocess k *)
(* has pk 2k and, in the variant "leaf", a failed calculation 2k+1 below   *)
(* it; pk 14 is a failed calculation called by the root without a label.   *)

SubVariants == {"absent", "ok", "failed", "leaf"}

FailedLeaf(parent, label, ctime) ==
    Record(parent, CalcJobNode, label, <<"PwCalculation">>, ctime,
           FALSE, <<500, "SCF did not converge">>)

SubWorkChain(parent, label, ctime, variant) ==
    Record(parent, WorkChainNode, <<label>>, <<"PwBaseWorkChain">>, ctime,
           variant = "ok",
           IF variant = "ok" THEN <<0, "">> ELSE <<401, "sub process failed">>)

RootWorkChain(ok) ==
    Record(0, WorkChainNode, None, <<"WorkChain">>, 0,
           ok, IF ok THEN <<0, "">> ELSE <<401, "sub process failed">>)

Wannier90Graph(ok, v, extra) ==
    [i \in {Root}
           \cup {2 * k : k \in {j \in 1..6 : v[j] # "absent"}}
           \cup {2 * k + 1 : k \in {j \in 1..6 : v[j] = "leaf"}}
           \cup (IF extra THEN {14} ELSE {}) |->
        IF i = Root THEN RootWorkChain(ok)
        ELSE IF i = 14 THEN Record(Root, CalcJobNode, None, None, i,
                                   FALSE, <<500, "SCF did not converge">>)
        ELSE IF i % 2 = 0
             THEN SubWorkChain(Root, Wannier90Subprocesses[i \div 2][1], i, v[i \div 2])
        ELSE FailedLeaf(i - 1, <<"iteration_01">>, i)]

Wannier90Graphs ==
    { Wannier90Graph(ok, v, extra) :
        ok \in BOOLEAN, v \in [1..6 -> SubVariants], extra \in BOOLEAN }

(* A workchain with the subprocesses of an EpwPrepWorkChain or a           *)
(* B2WWorkChain: w90_bands (pk 2) with scf (3, calculation 4) and nscf (5),*)
(* ph_base (6, calculation 7), epw_base (8, calculation 9), epw_bands (10) *)
(* and epw (11, calculation 12, called without a link label).             *)

EpwChoices ==
    [w90       : {"absent", "ok", "failed", "scf", "nscf"},
     ph        : {"absent", "ok", "failed", "leaf"},
     epw_base  : {"absent", "ok", "failed", "leaf", "killed"},
     epw_bands : {"absent", "ok", "failed"},
     epw       : {"absent", "ok", "leaf"}]

EpwGraph(ok, c) ==
    [i \in {Root}
           \cup (IF c.w90 # "absent" THEN {2} ELSE {})
           \cup (IF c.w90 = "scf" THEN {3, 4} ELSE {})
           \cup (IF c.w90 = "nscf" THEN {3, 5} ELSE {})
           \cup (IF c.ph # "absent" THEN {6} ELSE {})
           \cup (IF c.ph = "leaf" THEN {7} ELSE {})
           \cup (IF c.epw_base # "absent" THEN {8} ELSE {})
           \cup (IF c.epw_base \in {"leaf", "killed"} THEN {9} ELSE {})
           \cup (IF c.epw_bands # "absent" THEN {10} ELSE {})
           \cup (IF c.epw # "absent" THEN {11} ELSE {})
           \cup (IF c.epw = "leaf" THEN {12} ELSE {}) |->
        CASE i = Root -> RootWorkChain(ok)
          [] i = 2  -> SubWorkChain(Root, "w90_bands", i, c.w90)
          [] i = 3  -> SubWorkChain(2, "scf", i, IF c.w90 = "nscf" THEN "ok" ELSE "failed")
          [] i = 4  -> FailedLeaf(3, <<"iteration_01">>, i)
          [] i = 5  -> SubWorkChain(2, "nscf", i, "failed")
          [] i = 6  -> SubWorkChain(Root, "ph_base", i, c.ph)
          [] i = 7  -> Record(6, CalcJobNode, <<"iteration_01">>, <<"PhCalculation">>, i,
                              FALSE, <<312, "unrecoverable error">>)
          [] i = 8  -> SubWorkChain(Root, "epw_base", i, c.epw_base)
          [] i = 9  -> IF c.epw_base = "killed"
                       THEN Record(8, CalcJobNode, <<"iteration_01">>, <<"EpwCalculation">>, i,
                                   FALSE, None)
                       ELSE FailedLeaf(8, <<"iteration_01">>, i)
          [] i = 10 -> SubWorkChain(Root, "epw_bands", i, c.epw_bands)
          [] i = 11 -> SubWorkChain(Root, "epw", i, c.epw)
          [] i = 12 -> Record(11, CalcJobNode, None, <<"EpwCalculation">>, i,
                              FALSE, <<500, "SCF did not converge">>)]

EpwGraphs == { EpwGraph(ok, c) : ok \in BOOLEAN, c \in EpwChoices }

----------------------------------------------------------------------------
(* The state machine: the workflow engine records the processes a         *)
(* workchain calls; an analyser is constructed over the root record and    *)
(* its get_state is called.                                                *)

(* what the record store holds of the last-executed calculation (the file *)
(* aiida.out of its retrieved folder, the scheduler stderr, each with the  *)
(* exception reading it raises, "None" for a stderr that is None) and the  *)
(* verdict of the stability check on the phonon outputs                    *)
NoCapture ==
    [aiida_out |-> <<>>, aiida_out_exc |-> "", stderr |-> <<>>, stderr_exc |-> "",
     stability |-> "stable"]

Captures ==
    [aiida_out     : { <<>>,
                       <<"JOB DONE.">>,
                       <<PhBaseRules[5][2]>>,
                       <<PhBaseRules[2][2], PhBaseRules[1][2]>>,
                       <<"JOB DONE.", PhBaseRules[10][2], PhBaseRules[3][2]>> },
     aiida_out_exc : {"", "KeyError", "FileNotFoundError"},
     stderr        : { <<>>, <<"TIME LIMIT">>, <<"process killed">>,
                       <<"process killed", "TIME LIMIT">> },
     stderr_exc    : {"", "None"},
     stability     : {"stable", "unstable", "raise"}]

(* A PhBaseWorkChain: the root, a first PhCalculation (pk 2) and, unless   *)
(* absent, a second calculation (pk 3) that is a PhCalculation or not.     *)
PhGraph(ok, first, second) ==
    [i \in {Root, 2} \cup (IF second # "absent" THEN {3} ELSE {}) |->
        CASE i = Root -> Record(0, WorkChainNode, None, <<"PhBaseWorkChain">>, 0,
                                ok, IF ok THEN <<0, "">> ELSE <<401, "sub process failed">>)
          [] i = 2 -> Record(Root, CalcJobNode, <<"iteration_01">>, <<"PhCalculation">>, 1,
                             first[1], first[2])
          [] i = 3 -> Record(Root, CalcJobNode, <<"iteration_02">>,
                             IF second = "other" THEN <<"PwCalculation">>
                             ELSE <<"PhCalculation">>,
                             2, second # "failed",
                             IF second = "failed" THEN <<312, "unrecoverable error">>
                             ELSE <<0, "">>)]

PhGraphs ==
    { PhGraph(ok, first, second) :
        ok \in BOOLEAN, first \in CalcJobOutcomes,
        second \in {"absent", "ok", "failed", "other"} }

NoFaults == [clean_workdir |-> "ok", delete_nodes |-> "ok"]

Faults == [clean_workdir : {"ok", "raise"}, delete_nodes : {"ok", "raise", "warn"}]

EmptyStore == [cleaned |-> {}, deleted |-> {}]

(* the last call of clean_workchain: its arguments and its report *)
Cleaned(exempted_states, dry_run, rep) ==
    [exempted_states |-> exempted_states, dry_run |-> dry_run, outcome |-> rep]

NotCleaned == Cleaned({}, TRUE, NoReport)

(* no snapshot built, no merge done, no group aggregated, no call of       *)
(* get_state in progress                                                   *)
NoValue == Value("idle", "")

NotBuilt ==
    [op |-> "none", kind |-> "idle", tree |-> <<>>, exc |-> "", last |-> 0, found |-> None]

NotMerged == [d1 |-> Dict(<<>>), d2 |-> Dict(<<>>), outcome |-> NoValue]

NotAggregated == [nodes |-> <<>>, analyser_class |-> "none", outcome |-> NoValue]

NotRunning ==
    [pc |-> "idle", analyser |-> "none", i |-> 0, before |-> <<>>, deleted |-> {},
     path |-> <<>>, held |-> 0, outcome |-> Idle]

Elsewhere ==
    /\ built = NotBuilt
    /\ merged = NotMerged
    /\ group = NotAggregated
    /\ run = NotRunning

Init ==
    /\ graph \in RootGraphs \cup Wannier90Graphs \cup EpwGraphs
    /\ analyser = "none"
    /\ result = Idle
    /\ captured = NoCapture
    /\ faults = NoFaults
    /\ store = EmptyStore
    /\ calls = <<>>
    /\ report = NotCleaned
    /\ Elsewhere

InitBase ==
    /\ graph \in RootGraphs
    /\ analyser = "none"
    /\ result = Idle
    /\ captured = NoCapture
    /\ faults = NoFaults
    /\ store = EmptyStore
    /\ calls = <<>>
    /\ report = NotCleaned
    /\ Elsewhere

RecordCalled ==
    /\ result.kind = "idle"
    /\ Cardinality(DOMAIN graph) < MaxRecords
    /\ \E rec \in ChildRecords(graph) : graph' = graph @@ (NextPk(graph) :> rec)
    /\ UNCHANGED <<analyser, result, captured, cleanVars, otherVars>>

Call(name, res) ==
    /\ result.kind = "idle"
    /\ analyser' = name
    /\ result' = res
    /\ UNCHANGED <<graph, captured, cleanVars, otherVars>>

BaseCall == Call("BaseWorkChainAnalyser", BaseGetState(graph, Root))

PwBaseCall == Call("PwBaseWorkChainAnalyser", PwBaseGetState(graph, Root))

PhBaseCall == Call("PhBaseWorkChainAnalyser", PhBaseGetState(graph, Root))

PwBandsCall == Call("PwBandsWorkChainAnalyser", PwBandsGetState(graph, Root))

SuperConCall == Call("EpwSuperConWorkChainAnalyser", SuperConGetState(graph, Root))

ThermoPwCall == Call("ThermoPwBaseAnalyser", ThermoPwGetState(graph, Root))

Wannier90Call == Call("Wannier90WorkChainAnalyser", Wannier90GetState(graph, Root))

EpwPrepCall == Call("EpwPrepWorkChainAnalyser", EpwPrepGetState(graph, Root))

EpwB2WCall == Call("EpwB2WWorkChainAnalyser", EpwB2WGetState(graph, Root))

Next ==
    \/ RecordCalled
    \/ BaseCall
    \/ PwBaseCall
    \/ PhBaseCall
    \/ PwBandsCall
    \/ SuperConCall
    \/ ThermoPwCall
    \/ Wannier90Call
    \/ EpwPrepCall
    \/ EpwB2WCall

Spec == Init /\ [][Next]_vars

(* The generic analyser alone, on every graph of at most MaxRecords records *)
SpecBase == InitBase /\ [][RecordCalled \/ BaseCall]_vars

(* The PhBase analyser on PhBaseWorkChains with captured outputs           *)
InitPh ==
    /\ graph \in PhGraphs
    /\ analyser = "none"
    /\ result = Idle
    /\ captured \in Captures
    /\ faults = NoFaults
    /\ store = EmptyStore
    /\ calls = <<>>
    /\ report = NotCleaned
    /\ Elsewhere

SpecPh == InitPh /\ [][PhBaseCall]_vars

----------------------------------------------------------------------------
(* clean_workchain, called any number of times on a stored workchain, with *)
(* collaborators that work or fail.                                        *)

ExemptionSets ==
    { {},
      {[code |-> -1, label |-> ""]},
      {[code |-> 0, label |-> ""], [code |-> 500, label |-> ""]} }

(* A workchain that is waiting or running has not terminated: it did not   *)
(* finish ok and has no exit code.  It has called nothing yet, one         *)
(* calculation that finished, or one calculation that is still running.    *)
RunningGraphs ==
    { [i \in {Root} |-> Record(0, WorkChainNode, None, <<"EpwBaseWorkChain">>, 0, FALSE, None)] }
    \cup { [i \in {Root, 2} |->
              IF i = Root
              THEN Record(0, WorkChainNode, None, <<"EpwBaseWorkChain">>, 0, FALSE, None)
              ELSE Record(Root, CalcJobNode, <<"iteration_01">>, <<"EpwCalculation">>, 1,
                          o[1], o[2])] :
           o \in {Finished, <<FALSE, None>>} }

CleanGraphs ==
    RootGraphs
      \cup RunningGraphs
      \cup { EpwGraph(ok, c) :
                ok \in BOOLEAN,
                c \in {d \in EpwChoices : /\ d.w90 \in {"absent", "ok", "scf"}
                                            /\ d.ph \in {"ok", "leaf"}
                                            /\ d.epw_bands = "absent"
                                            /\ d.epw \in {"absent", "ok"}} }
      \cup { Wannier90Graph(ok, v, FALSE) :
                ok \in BOOLEAN,
                v \in {w \in [1..6 -> SubVariants] : \A k \in 2..6 : w[k] = "absent"} }

InitClean ==
    /\ graph \in CleanGraphs
    /\ analyser = "none"
    /\ result = Idle
    /\ captured = NoCapture
    /\ faults \in Faults
    /\ store = EmptyStore
    /\ calls = <<>>
    /\ report = NotCleaned
    /\ Elsewhere

(* a call of clean_workchain on a node still in the store; `state` is the  *)
(* diagnosis it computed, Idle if it computed none                         *)
Clean(name, state, exempted_states, dry_run, out) ==
    /\ Root \notin store.deleted
    /\ analyser' = name
    /\ result' = state
    /\ report' = Cleaned(exempted_states, dry_run, out.report)
    /\ store' = out.store
    /\ calls' = out.calls
    /\ UNCHANGED <<graph, captured, faults, otherVars>>

BaseClean ==
    \E exempted_states \in ExemptionSets, dry_run \in BOOLEAN :
        Clean("BaseWorkChainAnalyser", BaseGetState(graph, Root), exempted_states, dry_run,
              BaseCleanWorkchain(graph, Root, BaseGetState(graph, Root),
                                 exempted_states, dry_run, store, faults))

PhBaseClean ==
    \E dry_run \in BOOLEAN :
        Clean("PhBaseWorkChainAnalyser", Idle, {}, dry_run,
              PhBaseCleanWorkchain(graph, Root, dry_run, store, faults))

PwBaseClean ==
    \E dry_run \in BOOLEAN :
        Clean("PwBaseWorkChainAnalyser", Idle, {}, dry_run,
              PwBaseCleanWorkchain(graph, Root, dry_run, store, faults))

Wannier90Clean ==
    \E dry_run \in BOOLEAN :
        Clean("Wannier90WorkChainAnalyser", Idle, {}, dry_run,
              Wannier90CleanWorkchain(graph, Root, dry_run, store, faults))

SuperConClean ==
    \E dry_run \in BOOLEAN :
        Clean("EpwSuperConWorkChainAnalyser", Idle, {}, dry_run,
              SuperConCleanWorkchain(graph, Root, dry_run, store, faults))

ThermoPwClean ==
    \E dry_run \in BOOLEAN :
        Clean("ThermoPwBaseAnalyser", Idle, {}, dry_run,
              ThermoPwCleanWorkchain(graph, Root, dry_run, store, faults))

EpwBaseClean ==
    \E dry_run \in BOOLEAN :
        Clean("EpwBaseWorkChainAnalyser", EpwBaseGetState(graph, Root),
              EpwBaseExemptedStates, dry_run,
              EpwBaseCleanWorkchain(graph, Root, dry_run, store, faults))

EpwPrepClean ==
    \E exempted_states \in ExemptionSets, dry_run \in BOOLEAN :
        Clean("EpwPrepWorkChainAnalyser", EpwPrepGetState(graph, Root),
              exempted_states, dry_run,
              EpwPrepCleanWorkchain(graph, Root, exempted_states, dry_run, store, faults))

EpwB2WClean ==
    \E exempted_states \in ExemptionSets, dry_run \in BOOLEAN :
        Clean("EpwB2WWorkChainAnalyser", EpwB2WGetState(graph, Root),
              exempted_states, dry_run,
              EpwB2WCleanWorkchain(graph, Root, exempted_states, dry_run, store, faults))

NextClean ==
    \/ BaseClean
    \/ PhBaseClean
    \/ PwBaseClean
    \/ Wannier90Clean
    \/ SuperConClean
    \/ ThermoPwClean
    \/ EpwBaseClean
    \/ EpwPrepClean
    \/ EpwB2WClean

SpecClean == InitClean /\ [][NextClean]_vars

----------------------------------------------------------------------------
(* The specifications below leave the analysers of the single workchain    *)
(* alone.                                                                  *)

LoneRoot == [i \in {Root} |-> RootWorkChain(TRUE)]

Quiet ==
    /\ analyser = "none"
    /\ result = Idle
    /\ captured = NoCapture
    /\ faults = NoFaults
    /\ store = EmptyStore
    /\ calls = <<>>
    /\ report = NotCleaned

quietVars == <<analyser, result, captured, faults, store, calls, report>>

----------------------------------------------------------------------------
(* recursive_merge on two dictionaries with keys among 'a' and 'b'.        *)

MergeValues ==
    { Value("int", 1), Value("int", 2),
      List(<<1>>), List(<<2, 3>>),
      Value("tuple", <<1>>),
      Value("set", {1}), Value("set", {2}),
      Dict([x |-> Value("int", 1)]),
      Dict([x |-> List(<<1>>)]),
      Dict([x |-> Value("int", 2), y |-> List(<<2>>)]) }

MergeDicts == { Dict(f) : f \in UNION { [K -> MergeValues] : K \in SUBSET {"a", "b"} } }

InitMerge ==
    /\ graph = LoneRoot
    /\ Quiet
    /\ built = NotBuilt
    /\ group = NotAggregated
    /\ run = NotRunning
    /\ merged \in [d1 : MergeDicts, d2 : MergeDicts, outcome : {NoValue}]

RecursiveMerge ==
    /\ merged.outcome.kind = "idle"
    /\ merged' = [merged EXCEPT !.outcome = recursive_merge(merged.d1, merged.d2)]
    /\ UNCHANGED <<graph, quietVars, built, group, run>>

SpecMerge == InitMerge /\ [][RecursiveMerge]_vars

----------------------------------------------------------------------------
(* get_group_status on a group of at most MaxGroup workchains.             *)

MaxGroup == 3

GroupGraphs ==
    { [i \in {Root} |-> RootWorkChain(TRUE)],
      [i \in {Root} |-> RootWorkChain(FALSE)] }
    \cup { [i \in {Root, 2} |->
              IF i = Root THEN RootWorkChain(FALSE)
              ELSE Record(Root, CalcJobNode, <<x[1]>>, <<"PwCalculation">>, 1, FALSE, x[2])] :
           x \in { <<"scf", <<500, "SCF did not converge">>>>,
                   <<"scf", <<312, "unrecoverable error">>>>,
                   <<"nscf", <<500, "SCF did not converge">>>>,
                   <<"scf", None>> } }

GroupAnalysers ==
    {"BaseWorkChainAnalyser", "PwBaseWorkChainAnalyser", "PwBandsWorkChainAnalyser"}

InitGroup ==
    /\ graph = LoneRoot
    /\ Quiet
    /\ built = NotBuilt
    /\ merged = NotMerged
    /\ run = NotRunning
    /\ group \in [nodes          : UNION { [1..n -> GroupGraphs] : n \in 0..MaxGroup },
                  analyser_class : GroupAnalysers,
                  outcome        : {NoValue}]

GetGroupStatus ==
    /\ group.outcome.kind = "idle"
    /\ group' = [group EXCEPT
                   !.outcome = get_group_status(group.nodes, group.analyser_class)]
    /\ UNCHANGED <<graph, quietVars, built, merged, run>>

SpecGroup == InitGroup /\ [][GetGroupStatus]_vars

----------------------------------------------------------------------------
(* The snapshot of a record graph of at most MaxTreeRecords records, built *)
(* by ProcessTree(node) and walked by find_last_node and                   *)
(* traverse_and_check.  The root record may be called by the record of pk  *)
(* 2, which it calls (a self-referential graph).                           *)

MaxTreeRecords == 4

TreeRoots ==
    { [i \in {Root} |-> Record(parent, WorkChainNode, None, <<"WorkChain">>, 0,
                               FALSE, <<401, "sub process failed">>)] :
      parent \in {0, 2} }

TreeChildRecords(g) ==
    { Record(parent, t[1], label, ProcessLabel(t[1]), ctime, t[2], t[3]) :
        parent \in {i \in DOMAIN g : g[i].node_type = WorkChainNode},
        t \in { <<CalcJobNode, FALSE, <<500, "SCF did not converge">>>>,
                <<WorkChainNode, FALSE, <<401, "sub process failed">>>> },
        label \in {<<"scf">>, None},
        ctime \in 1..MaxCtime }

InitTree ==
    /\ graph \in TreeRoots
    /\ Quiet
    /\ built = NotBuilt
    /\ merged = NotMerged
    /\ group = NotAggregated
    /\ run = NotRunning

SubprocessCalled ==
    /\ built.op = "none"
    /\ Cardinality(DOMAIN graph) < MaxTreeRecords
    /\ \E rec \in TreeChildRecords(graph) : graph' = graph @@ (NextPk(graph) :> rec)
    /\ UNCHANGED <<quietVars, otherVars>>

(* ProcessTree(self.node) *)
BuildTree ==
    /\ built.op = "none"
    /\ LET out == Construct(graph, Root, "ROOT", 1)
       IN  built' = [op |-> "ProcessTree", kind |-> out.kind, tree |-> out.tree,
                     exc |-> out.exc, last |-> 0, found |-> None]
    /\ UNCHANGED <<graph, quietVars, merged, group, run>>

FindLastNode ==
    /\ built.op = "ProcessTree"
    /\ built.kind = "return"
    /\ built' = [built EXCEPT !.op = "find_last_node",
                              !.last = find_last_node(built.tree).node]
    /\ UNCHANGED <<graph, quietVars, merged, group, run>>

TraverseAndCheck ==
    /\ built.op = "ProcessTree"
    /\ built.kind = "return"
    /\ LET res == traverse_and_check(graph, built.tree, <<>>)
       IN  built' = [built EXCEPT !.op = "traverse_and_check",
                                  !.found = IF res = None THEN None
                                            ELSE <<res[1], res[2].node>>]
    /\ UNCHANGED <<graph, quietVars, merged, group, run>>

SpecTree ==
    InitTree /\ [][SubprocessCalled \/ BuildTree \/ FindLastNode \/ TraverseAndCheck]_vars

----------------------------------------------------------------------------
(* get_state statement by statement, while another actor deletes a record  *)
(* of the graph together with the records it called.  Every evaluation of  *)
(* self.process_tree builds a new snapshot of the graph as it is then; a   *)
(* node object held from an earlier snapshot keeps the values it was       *)
(* loaded with, or reading it raises once its record is gone.              *)
(*                                                                         *)
(* The workchain: w90_bands called twice (pk 2, then pk 3), ph_base (4,    *)
(* calculation 5) and epw_base (6, calculation 7).                         *)

RaceChoices ==
    [w1       : {"absent", "ok", "failed"},
     w2       : {"absent", "ok", "failed"},
     ph       : {"absent", "ok", "leaf"},
     epw_base : {"absent", "ok", "leaf"}]

RaceGraph(ok, c) ==
    [i \in {Root}
           \cup (IF c.w1 # "absent" THEN {2} ELSE {})
           \cup (IF c.w2 # "absent" THEN {3} ELSE {})
           \cup (IF c.ph # "absent" THEN {4} ELSE {})
           \cup (IF c.ph = "leaf" THEN {5} ELSE {})
           \cup (IF c.epw_base # "absent" THEN {6} ELSE {})
           \cup (IF c.epw_base = "leaf" THEN {7} ELSE {}) |->
        CASE i = Root -> RootWorkChain(ok)
          [] i = 2 -> SubWorkChain(Root, "w90_bands", i, c.w1)
          [] i = 3 -> SubWorkChain(Root, "w90_bands", i, c.w2)
          [] i = 4 -> SubWorkChain(Root, "ph_base", i, c.ph)
          [] i = 5 -> Record(4, CalcJobNode, <<"iteration_01">>, <<"PhCalculation">>, i,
                             FALSE, <<312, "unrecoverable error">>)
          [] i = 6 -> SubWorkChain(Root, "epw_base", i, c.epw_base)
          [] i = 7 -> FailedLeaf(6, <<"iteration_01">>, i)]

RaceGraphs == { RaceGraph(ok, c) : ok \in BOOLEAN, c \in RaceChoices }

InitRace ==
    /\ graph \in RaceGraphs
    /\ Quiet
    /\ built = NotBuilt
    /\ merged = NotMerged
    /\ group = NotAggregated
    /\ run = NotRunning

Done(out) == [run EXCEPT !.pc = "done", !.outcome = out]

(* if self.node.is_finished_ok: return 'ROOT', 0, 'finished OK' *)
GetStateCalled ==
    /\ run.pc = "idle"
    /\ \E name \in {"BaseWorkChainAnalyser", "EpwPrepWorkChainAnalyser"} :
          LET called_on == [run EXCEPT !.analyser = name, !.before = graph]
          IN  run' = IF graph[Root].is_finished_ok
                     THEN [called_on EXCEPT !.pc = "done",
                                            !.outcome = Return(ROOT, 0, "finished OK")]
                     ELSE IF name = "BaseWorkChainAnalyser"
                     THEN [called_on EXCEPT !.pc = "locate"]
                     ELSE [called_on EXCEPT !.pc = "contains", !.i = 1]
    /\ UNCHANGED <<graph, quietVars, built, merged, group>>

(* the next subprocess of the checklist, or the raise that ends the loop *)
NextSubprocess ==
    IF run.i = Len(EpwPrepSubprocesses) THEN Done(Raise("ValueError"))
    ELSE [run EXCEPT !.pc = "contains", !.i = run.i + 1]

(* if subprocess_name in self.process_tree *)
EpwPrepContains ==
    /\ run.pc = "contains"
    /\ run' = IF Contains(ProcessTree(graph, Root, "ROOT"), EpwPrepSubprocesses[run.i][1])
              THEN [run EXCEPT !.pc = "finished"]
              ELSE NextSubprocess
    /\ UNCHANGED <<graph, quietVars, built, merged, group>>

(* if not self.process_tree[subprocess_name].node.is_finished_ok *)
EpwPrepFinished ==
    /\ run.pc = "finished"
    /\ LET process_tree    == ProcessTree(graph, Root, "ROOT")
           subprocess_name == EpwPrepSubprocesses[run.i][1]
       IN  run' = IF ~Contains(process_tree, subprocess_name)
                  THEN Done(Raise("KeyError"))
                  ELSE IF ~graph[GetItem(process_tree, subprocess_name).node].is_finished_ok
                  THEN [run EXCEPT !.pc = "analyse"]
                  ELSE NextSubprocess
    /\ UNCHANGED <<graph, quietVars, built, merged, group>>

(* analyser = subprocess_analyser(self.process_tree[subprocess_name].node) *)
(* and return analyser.get_state()                                         *)
EpwPrepAnalyse ==
    /\ run.pc = "analyse"
    /\ LET process_tree    == ProcessTree(graph, Root, "ROOT")
           subprocess_name == EpwPrepSubprocesses[run.i][1]
       IN  run' = IF ~Contains(process_tree, subprocess_name)
                  THEN Done(Raise("KeyError"))
                  ELSE Done(EpwPrepSubState(graph, EpwPrepSubprocesses[run.i][2],
                                            GetItem(process_tree, subprocess_name).node))
    /\ UNCHANGED <<graph, quietVars, built, merged, group>>

(* result = ProcessTree.traverse_and_check(node=self.process_tree, ...) *)
BaseLocate ==
    /\ run.pc = "locate"
    /\ LET res == traverse_and_check(graph, ProcessTree(graph, Root, "ROOT"), <<>>)
       IN  run' = IF res = None THEN Done(Return(ROOT, -1, "Unknown status"))
                  ELSE [run EXCEPT !.pc = "exit_code", !.path = res[1], !.held = res[2].node]
    /\ UNCHANGED <<graph, quietVars, built, merged, group>>

(* exit_code = node.node.exit_code, read from the node object of the       *)
(* snapshot                                                                *)
BaseExitCode ==
    /\ run.pc = "exit_code"
    /\ \/ LET exit_code == run.before[run.held].exit_code
          IN  run' = IF exit_code = None THEN Done(Raise("AttributeError"))
                     ELSE Done(Return(run.path, exit_code[1], exit_code[2]))
       \/ /\ run.held \notin DOMAIN graph
          /\ run' = Done(Raise("NotExistent"))
    /\ UNCHANGED <<graph, quietVars, built, merged, group>>

(* another actor deletes a record the root called, directly or not, with   *)
(* the records below it, once during the call                              *)
RecordDeleted ==
    /\ run.pc \notin {"idle", "done"}
    /\ run.deleted = {}
    /\ \E r \in DOMAIN graph \ {Root} :
          LET gone == {r} \cup Descendants(graph, r)
          IN  /\ graph' = [i \in DOMAIN graph \ gone |-> graph[i]]
              /\ run' = [run EXCEPT !.deleted = gone]
    /\ UNCHANGED <<quietVars, built, merged, group>>

NextRace ==
    \/ GetStateCalled
    \/ EpwPrepContains
    \/ EpwPrepFinished
    \/ EpwPrepAnalyse
    \/ BaseLocate
    \/ BaseExitCode
    \/ RecordDeleted

SpecRace == InitRace /\ [][NextRace]_vars

----------------------------------------------------------------------------
(* Vocabulary of the properties, stated over the record graph.             *)

Returned == result.kind = "return"

RootOk == graph[Root].is_finished_ok

Generic == analyser = "BaseWorkChainAnalyser"

Children(r) == {i \in DOMAIN graph : graph[i].parent = r}

FailingLeaves ==
    {i \in DOMAIN graph : graph[i].node_type = CalcJobNode /\ ~graph[i].is_finished_ok}

RECURSIVE LabelPath(_)
LabelPath(i) ==
    IF i = Root THEN <<>> ELSE Append(LabelPath(graph[i].parent), link_label(graph, i))

(* the path names record i, with or without the name of the root in front  *)
Designates(path, i) ==
    IF i = Root THEN path = ROOT
    ELSE path = LabelPath(i) \/ path = ROOT \o LabelPath(i)

(* record a is created before its sibling b; equal times keep link order   *)
Earlier(a, b) ==
    \/ graph[a].ctime < graph[b].ctime
    \/ graph[a].ctime = graph[b].ctime /\ a < b

RECURSIVE InOrder(_)
InOrder(S) ==
    IF S = {} THEN <<>>
    ELSE LET first == CHOOSE a \in S : \A b \in S \ {a} : Earlier(a, b)
         IN  <<first>> \o InOrder(S \ {first})

RECURSIVE PreOrder(_)
RECURSIVE PreOrderAll(_)
PreOrder(r) == <<r>> \o PreOrderAll(InOrder(Children(r)))

PreOrderAll(rs) ==
    IF rs = <<>> THEN <<>> ELSE PreOrder(Head(rs)) \o PreOrderAll(Tail(rs))

FirstFailingLeaf ==
    LET order == PreOrder(Root)
    IN  order[CHOOSE k \in 1..Len(order) :
                /\ order[k] \in FailingLeaves
                /\ \A j \in 1..(k - 1) : order[j] \notin FailingLeaves]

Reports(i) ==
    /\ Returned
    /\ Designates(result.path, i)
    /\ graph[i].exit_code # None
    /\ result.code = graph[i].exit_code[1]
    /\ result.message = graph[i].exit_code[2]

Success == Return(ROOT, 0, "finished OK")

Unknown == Return(ROOT, -1, "Unknown status")

(* the records of the snapshot the analyser builds *)
RECURSIVE TreeRecords(_)
TreeRecords(tree) ==
    {tree.node} \cup UNION { TreeRecords(tree.children[k].value) :
                             k \in 1..Len(tree.children) }

----------------------------------------------------------------------------
(* C1: whichever analyser is asked, a root that finished successfully is   *)
(* diagnosed as path "ROOT" with code 0, whatever its sub-runs did.        *)
C1_RootSuccess ==
    (result.kind # "idle" /\ RootOk) => (Returned /\ result.path = ROOT /\ result.code = 0)

(* C2: on a graph without failing leaves the generic get_state returns     *)
(* ("ROOT", 0, "finished OK").                                             *)
C2_NoFailingLeaves ==
    (Generic /\ FailingLeaves = {}) => result = Success

(* C2, amended: on a graph without failing leaves the generic get_state    *)
(* returns ("ROOT", 0, "finished OK") if the root finished successfully    *)
(* and ("ROOT", -1, "Unknown status") if it did not.                       *)
C2_NoFailingLeaves_Amended ==
    (Generic /\ FailingLeaves = {}) => result = (IF RootOk THEN Success ELSE Unknown)

C2_Witness ==
    /\ Generic
    /\ FailingLeaves = {}
    /\ ~RootOk
    /\ \E i \in Children(Root) : graph[i].node_type = CalcJobNode
    /\ \E i \in Children(Root) : graph[i].node_type = WorkChainNode
    /\ result = Unknown

(* C3: when the root did not finish successfully and exactly one atomic    *)
(* leaf of the graph failed, the generic diagnosis names that leaf and     *)
(* carries its exit status and exit message, whatever the exit status is.  *)
C3_SingleFailingLeaf ==
    (Generic /\ ~RootOk /\ Cardinality(FailingLeaves) = 1)
        => \A i \in FailingLeaves :
              /\ Returned
              /\ Designates(result.path, i)
              /\ graph[i].exit_code # None
                    => (result.code = graph[i].exit_code[1]
                        /\ result.message = graph[i].exit_code[2])

(* C4: the path of a located leaf is the '/'-joined labels from the root's *)
(* children down to the leaf, without the name of the root; "ROOT" is the  *)
(* path only of the root itself or of an undeterminable failure.           *)
C4_PathWithoutRoot ==
    (Generic /\ ~RootOk /\ Returned /\ result.path # ROOT)
        => \E i \in FailingLeaves : result.path = LabelPath(i)

----------------------------------------------------------------------------
(* C5: when the root did not finish successfully and leaves failed with an *)
(* exit status, the generic diagnosis reports the first failing leaf in    *)
(* depth-first pre-order over children ordered by creation time.           *)
C5_PreOrderPriority ==
    (Generic /\ ~RootOk /\ FailingLeaves # {}
        /\ \A i \in FailingLeaves : graph[i].exit_code # None)
        => Reports(FirstFailingLeaf)

(* C6: when the root did not finish successfully and the snapshot holds no *)
(* failing atomic leaf, the generic get_state returns path "ROOT" and code *)
(* -1; it neither raises nor reports success.                              *)
C6_Unknown ==
    (Generic /\ ~RootOk
        /\ TreeRecords(ProcessTree(graph, Root, "ROOT")) \cap FailingLeaves = {})
        => (Returned /\ result.path = ROOT /\ result.code = -1)

C6_Witness ==
    /\ Generic
    /\ ~RootOk
    /\ Cardinality(DOMAIN graph) = MaxRecords
    /\ \E i \in DOMAIN graph : i # Root /\ graph[i].node_type = WorkChainNode
                                /\ ~graph[i].is_finished_ok
    /\ \E i \in DOMAIN graph : graph[i].node_type = CalcJobNode
    /\ FailingLeaves = {}
    /\ result = Unknown

----------------------------------------------------------------------------
(* Vocabulary of the checklist properties, stated over the record graph.   *)

Checklist ==
    analyser \in {"Wannier90WorkChainAnalyser", "EpwPrepWorkChainAnalyser",
                  "EpwB2WWorkChainAnalyser"}

(* the declared subprocesses of the analyser asked, in declaration order  *)
Declared ==
    IF analyser = "Wannier90WorkChainAnalyser"
    THEN [k \in 1..Len(Wannier90Subprocesses) |-> Wannier90Subprocesses[k][1]]
    ELSE IF analyser = "EpwPrepWorkChainAnalyser"
    THEN [k \in 1..Len(EpwPrepSubprocesses) |-> EpwPrepSubprocesses[k][1]]
    ELSE IF analyser = "EpwB2WWorkChainAnalyser"
    THEN <<"w90_bands", "ph_base", "epw", "epw_base">>
    ELSE <<>>

(* the declared subprocesses the analyser expects to find in every tree   *)
Required ==
    IF analyser = "Wannier90WorkChainAnalyser"
    THEN {Wannier90Subprocesses[k][1] :
            k \in {j \in 1..Len(Wannier90Subprocesses) : Wannier90Subprocesses[j][2]}}
    ELSE IF analyser = "EpwB2WWorkChainAnalyser" THEN {"w90_bands", "ph_base"}
    ELSE {}

Subprocess(name) == {i \in Children(Root) : link_label(graph, i) = name}

Present(name) == Subprocess(name) # {}

Successful(name) == \A i \in Subprocess(name) : graph[i].is_finished_ok

(* every link of the root leads to a subprocess of its own name           *)
DistinctLabels ==
    \A i, j \in Children(Root) :
        link_label(graph, i) = link_label(graph, j) => i = j

(* the root failed, the declared subprocesses before the k-th are present  *)
(* and successful, the k-th is present and unsuccessful                    *)
FirstUnsuccessful(k) ==
    /\ Checklist
    /\ ~RootOk
    /\ DistinctLabels
    /\ k \in 1..Len(Declared)
    /\ \A j \in 1..(k - 1) : Present(Declared[j]) /\ Successful(Declared[j])
    /\ Present(Declared[k])
    /\ ~Successful(Declared[k])

(* what the analyser registered for the subprocess returns on its record   *)
Delegate(name) ==
    LET node == CHOOSE i \in Subprocess(name) : TRUE
    IN  IF analyser = "Wannier90WorkChainAnalyser"
        THEN Wannier90SubState(graph, name, node)
        ELSE IF name = "w90_bands" THEN Wannier90GetState(graph, node)
        ELSE IF name = "ph_base" THEN PhBaseGetState(graph, node)
        ELSE EpwBaseGetState(graph, node)

----------------------------------------------------------------------------
(* C7: when the root of a checklist analyser failed, the declared          *)
(* subprocesses before B are present and successful and B is present and   *)
(* unsuccessful, the diagnosis path is B or starts with 'B/', whatever the *)
(* later subprocesses did.                                                 *)
C7_ChecklistPriority ==
    \A k \in 1..Len(Declared) :
        FirstUnsuccessful(k)
            => (Returned /\ result.path # <<>> /\ Head(result.path) = Declared[k])

(* C8: when a checklist analyser delegates to the analyser of the          *)
(* unsuccessful subprocess L and that analyser returns (p, code, message), *)
(* it returns (L, code, message) if p is "ROOT" and (L/p, code, message)   *)
(* otherwise.                                                              *)
C8_PathPrefix ==
    \A k \in 1..Len(Declared) :
        (FirstUnsuccessful(k) /\ Delegate(Declared[k]).kind = "return")
            => result = Prefixed(Declared[k], Delegate(Declared[k]))

(* C9: when the root failed and a required subprocess is absent before any *)
(* present and unsuccessful subprocess is met in declaration order, the    *)
(* checklist analyser returns what the generic get_state returns on the    *)
(* same graph, and does not raise.                                         *)
C9_RequiredAbsent ==
    \A k \in 1..Len(Declared) :
        (/\ Checklist
         /\ ~RootOk
         /\ DistinctLabels
         /\ Declared[k] \in Required
         /\ ~Present(Declared[k])
         /\ \A j \in 1..(k - 1) : Present(Declared[j]) => Successful(Declared[j]))
            => (Returned /\ result = BaseGetState(graph, Root))

(* C10: when the root failed and every declared subprocess is present and  *)
(* successful, the checklist analyser returns what the generic get_state   *)
(* returns on the same graph.                                              *)
C10_ChecklistExhausted ==
    (/\ Checklist
     /\ ~RootOk
     /\ DistinctLabels
     /\ \A k \in 1..Len(Declared) : Present(Declared[k]) /\ Successful(Declared[k]))
        => (Returned /\ result = BaseGetState(graph, Root))

----------------------------------------------------------------------------
(* C11: get_state of every analyser ends by returning a triple (path,      *)
(* code, message); it never raises, whatever the graph is.                 *)
C11_AlwaysReturns ==
    result.kind # "idle" => Returned

(* C12: the code of a returned diagnosis is 0, a positive native exit      *)
(* status, a symbolic label or -1, and it is 0 only when the root record   *)
(* finished successfully.                                                  *)
C12_CodeDomain ==
    Returned =>
        \/ result.label # "" /\ result.code = Symbolic
        \/ /\ result.label = ""
           /\ result.code = 0 \/ result.code > 0 \/ result.code = -1
           /\ result.code = 0 => RootOk

C12_Witness ==
    /\ Returned
    /\ ~RootOk
    /\ analyser = "EpwPrepWorkChainAnalyser"
    /\ result.code > 0
    /\ \E i \in DOMAIN graph :
          /\ graph[i].node_type = WorkChainNode
          /\ i # Root
          /\ graph[i].is_finished_ok

----------------------------------------------------------------------------
(* Vocabulary of the PhBase properties.  The unrefined diagnosis is the    *)
(* one of the generic fault locator on the same graph.                     *)

PhBase == analyser = "PhBaseWorkChainAnalyser"

Unrefined == BaseGetState(graph, Root)

Unrefined312 ==
    /\ PhBase
    /\ Unrefined.kind = "return"
    /\ Unrefined.label = ""
    /\ Unrefined.code = 312

LastLeaf == find_last_node(ProcessTree(graph, Root, "ROOT")).node

LastIsPhCalculation == graph[LastLeaf].process_label = <<"PhCalculation">>

(* the standard output of the last leaf, empty when there is none *)
StandardOutput == IF captured.aiida_out_exc = "" THEN captured.aiida_out ELSE <<>>

OutputRead == captured.aiida_out_exc \in {"", "KeyError"}

Matches(k) == In(PhBaseRules[k][2], StandardOutput)

NoRuleMatches == \A k \in 1..Len(PhBaseRules) : ~Matches(k)

Notes ==
    { " (Scheduler time limit reached)", " (Process killed by scheduler)",
      " (Unable to determine specific error)" }

AbortNotes ==
    { " (Last node is PwCalculation, not PhCalculation)",
      " (Error analysis failed: FileNotFoundError)",
      " (Error analysis failed: TypeError)" }

(* C13: when the unrefined code is 312 and the last leaf is a              *)
(* PhCalculation, the returned code is the label of the first rule, in     *)
(* declaration order, whose message occurs in the standard output of the   *)
(* leaf, whatever the standard error holds.                                *)
C13_FirstMatch ==
    \A k \in 1..Len(PhBaseRules) :
        (/\ Unrefined312
         /\ LastIsPhCalculation
         /\ OutputRead
         /\ Matches(k)
         /\ \A j \in 1..(k - 1) : ~Matches(j))
            => (Returned /\ result.label = PhBaseRules[k][1])

(* C14: when the unrefined code is 312, the last leaf is a PhCalculation   *)
(* and no rule matches its standard output, 'TIME LIMIT' in the standard   *)
(* error gives SCHEDULER_TIME_LIMIT, otherwise 'process killed' gives      *)
(* KILLED_BY_SCHEDULER, otherwise the code is -1; the path is unchanged    *)
(* and the message is the original one followed by a note.                 *)
C14_StandardError ==
    (/\ Unrefined312
     /\ LastIsPhCalculation
     /\ OutputRead
     /\ NoRuleMatches
     /\ captured.stderr_exc = "")
        => /\ Returned
           /\ result.path = Unrefined.path
           /\ \E note \in Notes : result.message = Unrefined.message \o note
           /\ IF In("TIME LIMIT", captured.stderr)
              THEN result.label = "SCHEDULER_TIME_LIMIT"
              ELSE IF In("process killed", captured.stderr)
              THEN result.label = "KILLED_BY_SCHEDULER"
              ELSE result.label = "" /\ result.code = -1

(* C15: when the unrefined code is 312 and the last leaf is not a          *)
(* PhCalculation, or the error analysis raises, get_state returns the      *)
(* unrefined path and the code 312, with a note appended to the message.   *)
C15_AbortedReclassification ==
    (/\ Unrefined312
     /\ \/ ~LastIsPhCalculation
        \/ ~OutputRead
        \/ NoRuleMatches /\ captured.stderr_exc = "None")
        => /\ Returned
           /\ result.path = Unrefined.path
           /\ result.label = ""
           /\ result.code = 312
           /\ \E note \in AbortNotes : result.message = Unrefined.message \o note

(* C16: when the root of a PhBaseWorkChain finished successfully, the path *)
(* is "ROOT", the code is 0 or UNSTABLE, and if the stability check raises *)
(* the code is 0 and a note is appended to the message.                    *)
C16_StabilityHook ==
    (PhBase /\ RootOk)
        => /\ Returned
           /\ result.path = ROOT
           /\ IF result.label = "" THEN result.code = 0 ELSE result.label = "UNSTABLE"
           /\ captured.stability = "raise"
                 => /\ result.label = ""
                    /\ result.code = 0
                    /\ result.message
                         = Unrefined.message \o " (Stability check failed: AttributeError)"

----------------------------------------------------------------------------
(* Vocabulary of the cleanup properties.                                   *)

CleanCalled == report.outcome.kind # "idle"

CleanReturned == report.outcome.kind = "return"

(* clean_workchain computed a diagnosis and its code is exempted *)
DiagnosisExempted ==
    /\ CleanCalled
    /\ Returned
    /\ Exempted(result, report.exempted_states)

Specialized ==
    analyser \in {"PhBaseWorkChainAnalyser", "PwBaseWorkChainAnalyser",
                  "Wannier90WorkChainAnalyser", "EpwSuperConWorkChainAnalyser",
                  "ThermoPwBaseAnalyser", "EpwBaseWorkChainAnalyser",
                  "EpwPrepWorkChainAnalyser", "EpwB2WWorkChainAnalyser"}

(* C17: when the code of the diagnosis computed by clean_workchain is in   *)
(* the exempted states, it returns changed = False and calls neither       *)
(* clean_workdir nor delete_nodes, with dry_run true or false.             *)
C17_ExemptionShortCircuit ==
    DiagnosisExempted
        => /\ CleanReturned
           /\ ~report.outcome.changed
           /\ calls = <<>>
           /\ report.outcome.message.cleaned = <<>>
           /\ report.outcome.message.deleted = <<>>

C17_Witness ==
    /\ DiagnosisExempted
    /\ ~report.dry_run
    /\ result.code = 500
    /\ CleanReturned
    /\ ~report.outcome.changed
    /\ calls = <<>>
    /\ store = EmptyStore

(* C18: a call of clean_workchain with dry_run=True leaves the store as it *)
(* was, passes dry_run=True to every collaborator it calls and, when it    *)
(* repeats the preceding call, returns the same report.                    *)
C18_DryRunIdempotent ==
    [][(report'.outcome.kind # "idle" /\ report'.dry_run)
          => /\ store' = store
             /\ graph' = graph
             /\ \A k \in 1..Len(calls') : calls'[k].dry_run
             /\ (/\ CleanCalled
                 /\ report.dry_run
                 /\ analyser' = analyser
                 /\ report'.exempted_states = report.exempted_states)
                   => report' = report]_vars

C18_Witness ==
    /\ CleanReturned
    /\ report.dry_run
    /\ report.outcome.changed
    /\ Len(calls) = 2
    /\ \A k \in 1..Len(calls) : calls[k].dry_run
    /\ report.outcome.message.cleaned # <<>>
    /\ store = EmptyStore

(* C19: when clean_workchain is called with dry_run=False and one of the   *)
(* collaborators fails, by raising or by reporting warnings, it does not   *)
(* return a report with changed = True.                                    *)
C19_PartialFailureSurfaced ==
    (/\ CleanCalled
     /\ ~report.dry_run
     /\ faults # NoFaults)
        => ~(CleanReturned /\ report.outcome.changed)

(* C20: clean_workchain of a specialized analyser does not fail before the *)
(* test of the exempted states: it returns the outcome of the base         *)
(* clean_workchain, or fails as a collaborator fails.                      *)
C20_SpecializedClean ==
    (CleanCalled /\ Specialized)
        => \/ CleanReturned
           \/ report.outcome.exc \in {"OSError", "IntegrityError"}

----------------------------------------------------------------------------
(* Vocabulary of the aggregation properties.                               *)

GroupReturned == group.outcome.kind = "dict"

GroupReport == group.outcome.val

(* what get_state of the analyser class gives on the k-th node of the group *)
MemberState(k) == GetState(group.analyser_class, group.nodes[k], Root)

(* the (path, code) pairs the report has a bucket for *)
Buckets ==
    UNION { { <<path, code>> : code \in DOMAIN GroupReport[path].val } :
            path \in DOMAIN GroupReport }

Bucket(b) == GroupReport[b[1]].val[b[2]].val

Occurrences(k, b) ==
    Cardinality({j \in 1..Len(Bucket(b).nodes.val) : Bucket(b).nodes.val[j] = k})

OwnBucket(k) == <<MemberState(k).path, Status(MemberState(k))>>

(* C21: in the report get_group_status returns, every bucket holds a        *)
(* message and a list of members, and every node of the group occurs       *)
(* exactly once in the whole report, in the bucket of its own path and     *)
(* code: nodes with the same path and code share a list, a node with       *)
(* another code under the same path has a bucket of its own.               *)
C21_AggregationBuckets ==
    GroupReturned =>
        /\ \A b \in Buckets : DOMAIN Bucket(b) = {"message", "nodes"}
        /\ \A k \in 1..Len(group.nodes) :
              /\ OwnBucket(k) \in Buckets
              /\ \A b \in Buckets :
                    Occurrences(k, b) = IF b = OwnBucket(k) THEN 1 ELSE 0

C21_Witness ==
    /\ GroupReturned
    /\ \E b \in Buckets : Len(Bucket(b).nodes.val) = 2
    /\ \E b1 \in Buckets, b2 \in Buckets : b1[1] = b2[1] /\ b1[2] # b2[2]

(* the rule of the deep merge: mappings merge recursively, two lists, two  *)
(* tuples or two sets are joined, d1's elements first, any other pair is   *)
(* replaced by d2's value, keys of one input only are kept                 *)
RECURSIVE MergeRule(_, _)
MergeRule(d1, d2) ==
    Dict([key \in DOMAIN d1.val \cup DOMAIN d2.val |->
            IF key \notin DOMAIN d2.val THEN d1.val[key]
            ELSE IF key \notin DOMAIN d1.val THEN d2.val[key]
            ELSE IF d1.val[key].kind = "dict" /\ d2.val[key].kind = "dict"
                 THEN MergeRule(d1.val[key], d2.val[key])
            ELSE IF d1.val[key].kind = d2.val[key].kind
                    /\ d1.val[key].kind \in {"list", "tuple"}
                 THEN Value(d1.val[key].kind, d1.val[key].val \o d2.val[key].val)
            ELSE IF d1.val[key].kind = "set" /\ d2.val[key].kind = "set"
                 THEN Value("set", d1.val[key].val \cup d2.val[key].val)
            ELSE d2.val[key]])

(* C22: recursive_merge(d1, d2) returns, without raising, the dictionary    *)
(* the rule of the deep merge gives: mappings merged recursively, lists,   *)
(* sets and tuples joined, other conflicts replaced by d2's value, keys of *)
(* one input kept.                                                         *)
C22_DeepMerge ==
    merged.outcome.kind # "idle" =>
        /\ merged.outcome.kind = "dict"
        /\ merged.outcome = MergeRule(merged.d1, merged.d2)

(* C23: get_group_status returns a report even when get_state raises for   *)
(* a node of the group, and the report holds the diagnosis of every node   *)
(* whose get_state returns, before and after the failing one.              *)
C23_AggregationIsolation ==
    group.outcome.kind # "idle" =>
        /\ GroupReturned
        /\ \A k \in 1..Len(group.nodes) :
              MemberState(k).kind = "return" =>
                  /\ OwnBucket(k) \in Buckets
                  /\ Occurrences(k, OwnBucket(k)) = 1

----------------------------------------------------------------------------
(* the analysers that declare no checklist *)
Deferring ==
    analyser \in {"PwBaseWorkChainAnalyser", "PhBaseWorkChainAnalyser",
                  "PwBandsWorkChainAnalyser", "EpwSuperConWorkChainAnalyser",
                  "ThermoPwBaseAnalyser"}

(* C24: get_state of an analyser without checklist gives what the generic   *)
(* get_state gives on the same graph, except that PhBase may differ where  *)
(* the generic code is 312 or 0.                                           *)
C24_DefersToGeneric ==
    (Deferring /\ result.kind # "idle") =>
        \/ result = BaseGetState(graph, Root)
        \/ /\ PhBase
           /\ BaseGetState(graph, Root).kind = "return"
           /\ BaseGetState(graph, Root).code \in {0, 312}

----------------------------------------------------------------------------
(* Vocabulary of the snapshot properties.                                  *)

Built == built.kind = "return"

(* the nodes of a tree, each with the subtree below it *)
RECURSIVE Subtrees(_)
Subtrees(t) ==
    {t} \cup UNION { Subtrees(t.children[k].value) : k \in 1..Len(t.children) }

(* the records reachable from the records of S through child links *)
RECURSIVE CalledFrom(_)
CalledFrom(S) ==
    LET T == S \cup {i \in DOMAIN graph :
                       /\ graph[i].parent \in S
                       /\ graph[graph[i].parent].node_type = WorkChainNode}
    IN  IF T = S THEN S ELSE CalledFrom(T)

CalledBy(r) ==
    CalledFrom({i \in DOMAIN graph : graph[i].parent = r /\ graph[r].node_type = WorkChainNode})

(* a record the root reaches is reachable from itself *)
SelfReferential == \E r \in CalledFrom({Root}) : r \in CalledBy(r)

RECURSIVE Height(_)
Height(r) ==
    LET below == {Height(i) : i \in {j \in DOMAIN graph :
                                       /\ graph[j].parent = r
                                       /\ graph[r].node_type = WorkChainNode}}
    IN  IF below = {} THEN 1
        ELSE 1 + CHOOSE h \in below : \A k \in below : k <= h

(* C25: in every node of the snapshot, the children map lists the child     *)
(* nodes in ascending creation time of their records, records of equal     *)
(* creation time in the order of the outgoing links.                       *)
C25_ChildrenOrder ==
    Built =>
        \A t \in Subtrees(built.tree) :
            \A i \in 1..Len(t.children), j \in 1..Len(t.children) :
                i < j => Earlier(t.children[i].value.node, t.children[j].value.node)

(* the node reached from the root by taking the last-inserted child until  *)
(* a node has none                                                         *)
RECURSIVE LastChildDescent(_)
LastChildDescent(t) ==
    IF t.children = <<>> THEN t
    ELSE LastChildDescent(t.children[Len(t.children)].value)

(* the children of the nodes of a level, in the order of the level *)
RECURSIVE NextLevel(_)
NextLevel(level) ==
    IF level = <<>> THEN <<>>
    ELSE [k \in 1..Len(Head(level).children) |-> Head(level).children[k].value]
           \o NextLevel(Tail(level))

(* the last node of the deepest level of the tree *)
RECURSIVE BottomRight(_)
BottomRight(level) ==
    IF NextLevel(level) = <<>> THEN level[Len(level)] ELSE BottomRight(NextLevel(level))

RECURSIVE TreeDepth(_)
TreeDepth(level) == IF NextLevel(level) = <<>> THEN 1 ELSE 1 + TreeDepth(NextLevel(level))

RECURSIVE DescentDepth(_)
DescentDepth(t) ==
    IF t.children = <<>> THEN 1
    ELSE 1 + DescentDepth(t.children[Len(t.children)].value)

(* C26: find_last_node returns the node a breadth-first walk visits last,  *)
(* and this is the node reached from the root by repeatedly taking the     *)
(* last-inserted child.                                                    *)
C26_LastNode ==
    built.op = "find_last_node" =>
        /\ built.last = BottomRight(<<built.tree>>).node
        /\ built.last = LastChildDescent(built.tree).node

(* C26, amended: find_last_node returns the node a breadth-first walk      *)
(* visits last, which is the last node of the deepest level of the tree;   *)
(* it is the node reached by repeatedly taking the last-inserted child     *)
(* when that descent ends on the deepest level.                            *)
C26_LastNode_Amended ==
    built.op = "find_last_node" =>
        /\ built.last = BottomRight(<<built.tree>>).node
        /\ DescentDepth(built.tree) = TreeDepth(<<built.tree>>)
              => built.last = LastChildDescent(built.tree).node

C26_Witness ==
    /\ built.op = "find_last_node"
    /\ built.last = BottomRight(<<built.tree>>).node
    /\ built.last # LastChildDescent(built.tree).node
    /\ DescentDepth(built.tree) < TreeDepth(<<built.tree>>)

C29_NoSubRunDropped ==
    Built =>
        /\ \A t \in Subtrees(built.tree) :
              /\ Len(t.children) = Len(called(graph, t.node))
              /\ \A c \in Children(t.node) :
                    graph[t.node].node_type = WorkChainNode =>
                        Cardinality({k \in 1..Len(t.children) :
                                       t.children[k].value.node = c}) = 1
        /\ FailingLeaves \subseteq TreeRecords(built.tree)

----------------------------------------------------------------------------
(* the workchain is waiting or running: it has not terminated *)
Running == ~graph[Root].is_finished_ok /\ graph[Root].exit_code = None

(* C30: clean_workchain of the EpwBase analyser on a workchain that is      *)
(* waiting or running returns changed = False and calls neither            *)
(* clean_workdir nor delete_nodes.                                         *)
C30_RunningExempted ==
    (analyser = "EpwBaseWorkChainAnalyser" /\ CleanCalled /\ Running) =>
        /\ CleanReturned
        /\ ~report.outcome.changed
        /\ calls = <<>>

----------------------------------------------------------------------------
(* C27: when a record is deleted while get_state is in progress, get_state  *)
(* raises or returns the diagnosis of the graph as it was when the call    *)
(* began or as it is after the deletion.                                   *)
C27_ConcurrentDeletion ==
    (run.pc = "done" /\ run.outcome.kind = "return") =>
        \/ run.outcome = GetState(run.analyser, run.before, Root)
        \/ run.outcome = GetState(run.analyser, graph, Root)
====
